---- MODULE Spec2Model ----
(***************************************************************************)
(* A model of dicom2glb.py: the segmentation-to-mesh batch pipeline        *)
(* (run_segmentation, vtk_nii_to_stl, get_class_name) and the Blender      *)
(* scene assembly (process_stls: materials, groups, export).               *)
(*                                                                         *)
(* Strings are TLA+ strings; substring tests, lower-casing, suffix tests   *)
(* and path joins are computed character by character, as Python does.     *)
(***************************************************************************)
EXTENDS Integers, Sequences, FiniteSets, TLC

(***************************************************************************)
(* Bounds of the model.                                                    *)
(***************************************************************************)
\* number of mesh files in the directory handed to process_stls
MaxFiles == 2
\* number of process_stls calls in the scene-assembly specification
MaxRuns == 2

(***************************************************************************)
(* Python string primitives.                                               *)
(***************************************************************************)
\* `sub in s`
Contains(s, sub) ==
    \E i \in 0..(Len(s) - Len(sub)) : SubSeq(s, i + 1, i + Len(sub)) = sub

\* s.endswith(suf)
EndsWith(s, suf) ==
    /\ Len(suf) <= Len(s)
    /\ SubSeq(s, Len(s) - Len(suf) + 1, Len(s)) = suf

\* s.rfind(ch): the highest 0-based index of ch in s, -1 when there is none
RFind(s, ch) ==
    LET hits == {i \in 1..Len(s) : SubSeq(s, i, i) = ch}
    IN IF hits = {} THEN -1
       ELSE (CHOOSE i \in hits : \A j \in hits : j <= i) - 1

\* s[a:b] for 0 <= a, b <= len(s)
Slice(s, a, b) == SubSeq(s, a + 1, b)

UpperChars == "ABCDEFGHIJKLMNOPQRSTUVWXYZ"
LowerChars == "abcdefghijklmnopqrstuvwxyz"

LowerChar(c) ==
    LET hits == {i \in 1..Len(UpperChars) : SubSeq(UpperChars, i, i) = c}
    IN IF hits = {} THEN c
       ELSE LET i == CHOOSE k \in hits : TRUE IN SubSeq(LowerChars, i, i)

\* s.lower()
RECURSIVE Lower(_)
Lower(s) ==
    IF Len(s) = 0 THEN ""
    ELSE LowerChar(SubSeq(s, 1, 1)) \o Lower(SubSeq(s, 2, Len(s)))

\* any(substring in name for substring in subs)
AnyIn(subs, name) == \E k \in 1..Len(subs) : Contains(name, subs[k])

(***************************************************************************)
(* Blender data: object and material names are unique per datablock kind.  *)
(***************************************************************************)
Digits == "0123456789"

\* Blender's numeric suffix of a duplicate name: ".001", ".002", ...
Suffix(k) == ".00" \o SubSeq(Digits, k + 1, k + 1)

\* the name a new datablock gets when `name` is asked for and `used` are taken
UniqueName(name, used) ==
    IF name \notin used THEN name
    ELSE LET free == {k \in 1..9 : (name \o Suffix(k)) \notin used}
             k == CHOOSE m \in free : \A n \in free : m <= n
         IN name \o Suffix(k)

\* the name that was asked for: a trailing ".NNN" removed
BaseName(name) ==
    IF /\ Len(name) > 4
       /\ SubSeq(name, Len(name) - 3, Len(name) - 3) = "."
       /\ \A i \in (Len(name) - 2)..Len(name) : Contains(Digits, SubSeq(name, i, i))
    THEN SubSeq(name, 1, Len(name) - 4)
    ELSE name

\* a scene is the sequence of its objects, in the order they were linked
Names(sc) == {sc[i].name : i \in 1..Len(sc)}

NoParent == <<>>

\* file: the mesh file an imported object was read from
NewObject(name, kind, parent) ==
    [name |-> name, kind |-> kind, parent |-> parent, mats |-> <<>>,
     rot |-> <<0, 0>>, baked |-> <<0, 0>>, file |-> ""]

\* obj.children
Children(sc, name) == {i \in 1..Len(sc) : sc[i].parent = <<name>>}

\* bpy.data.objects.remove(obj)
RECURSIVE RemoveObject(_, _)
RemoveObject(sc, name) ==
    IF sc = <<>> THEN <<>>
    ELSE IF Head(sc).name = name THEN RemoveObject(Tail(sc), name)
    ELSE <<IF Head(sc).parent = <<name>>
           THEN [Head(sc) EXCEPT !.parent = NoParent]
           ELSE Head(sc)>> \o RemoveObject(Tail(sc), name)

(***************************************************************************)
(* Materials.                                                              *)
(***************************************************************************)
\* the keys of the dictionary assign_materials returns, in creation order
MaterialKeys ==
    <<"bone", "muscle", "nervous", "spleen", "kidney", "liver", "stomach",
      "lung", "artery", "cartilage", "vein", "gland">>

\* create_material(name, ...): the name of the new material datablock
create_material(name, matData) == UniqueName(name, matData)

\* assign_materials(): bucket key -> material created for it
assign_materials(matData) ==
    [b \in {MaterialKeys[i] : i \in 1..Len(MaterialKeys)} |->
        create_material(b \o "_mat", matData)]

\* the if/elif chain of assign_materials_to_objects, in source order
MaterialRules ==
    << [bucket |-> "bone", subs |->
          <<"vertebrae", "sacrum", "humerus", "scapula", "clavicula", "femur",
            "hip", "skull", "rib", "sternum", "intervertebral_discs",
            "vertebrae_body", "zygomatic_arch", "styloid_process",
            "thyroid_cartilage", "cricoid_cartilage", "ulna", "radius",
            "carpal", "metacarpal", "phalanges_hand", "patella", "tibia",
            "fibula", "tarsal", "metatarsal", "phalanges_feet", "hyoid">>],
       [bucket |-> "spleen", subs |-> <<"spleen">>],
       [bucket |-> "kidney", subs |-> <<"kidney">>],
       [bucket |-> "liver", subs |-> <<"liver">>],
       [bucket |-> "stomach", subs |->
          <<"stomach", "esophagus", "bowel", "colon", "duodenum">>],
       [bucket |-> "lung", subs |-> <<"lung">>],
       [bucket |-> "nervous", subs |-> <<"spinal">>],
       [bucket |-> "artery", subs |-> <<"artery", "aorta", "vessel", "vascular">>],
       [bucket |-> "vein", subs |->
          <<"vein", "vena", "iliac_vena", "inferior_vena_cava", "portal_vein",
            "brachiocephalic_trunk">>],
       [bucket |-> "cartilage", subs |-> <<"cartilage", "trachea">>],
       [bucket |-> "gland", subs |->
          <<"gland", "thyroid", "parathyroid", "adrenal", "pituitary",
            "hypothalamus", "thymus", "pancreas", "bladder", "prostate">>],
       [bucket |-> "fluid", subs |-> <<"effusion", "hemorrhage">>],
       [bucket |-> "infiltrate", subs |-> <<"infiltrate">>],
       [bucket |-> "implant", subs |-> <<"implant">>],
       [bucket |-> "tumor", subs |-> <<"tumor", "tumour">>] >>

\* an else branch that falls back to the first bucket
DefaultBucketBone == "bone"

\* the else branch
DefaultBucket == "muscle"

\* the rules (by index) whose substrings occur in obj_name
MatchingRules(obj_name) ==
    {r \in 1..Len(MaterialRules) : AnyIn(MaterialRules[r].subs, obj_name)}

\* the branch of the if/elif chain taken for obj_name: the first whose test holds
BucketOf(obj_name) ==
    LET hits == MatchingRules(obj_name)
    IN IF hits = {} THEN DefaultBucket
       ELSE MaterialRules[CHOOSE r \in hits : \A q \in hits : r <= q].bucket

\* the loop of assign_materials_to_objects from object i on; an exception
\* leaves the objects visited so far with their material and ends the loop
RECURSIVE AssignFrom(_, _, _)
AssignFrom(materials, sc, i) ==
    IF i > Len(sc) THEN [scene |-> sc, err |-> ""]
    ELSE LET bucket == BucketOf(Lower(sc[i].name))
         IN IF sc[i].kind # "MESH"
            THEN [scene |-> sc, err |-> "AttributeError"]
            ELSE IF bucket \notin DOMAIN materials
            THEN [scene |-> sc, err |-> "KeyError"]
            ELSE AssignFrom(materials,
                     [sc EXCEPT ![i].mats = Append(@, materials[bucket])], i + 1)

assign_materials_to_objects(materials, sc) == AssignFrom(materials, sc, 1)

(***************************************************************************)
(* Groups.                                                                 *)
(***************************************************************************)
\* a node of the group-definition tree: a name with either a dictionary of
\* sub-groups (isDict, kids) or a list of substrings (subs)
Branch(name, kids) == [name |-> name, isDict |-> TRUE, subs |-> <<>>, kids |-> kids]
Leaf(name, subs) == [name |-> name, isDict |-> FALSE, subs |-> subs, kids |-> <<>>]

\* create_parent_object(name): an empty linked to the scene
create_parent_object(name, sc) ==
    NewObject(UniqueName(name, Names(sc)), "EMPTY", NoParent)

\* Blender refuses a parent that would close a loop: par is ob, or ob is among
\* the ancestors of par
RECURSIVE ParentLoop(_, _, _, _)
ParentLoop(sc, par, ob, fuel) ==
    IF par = NoParent \/ fuel = 0 THEN FALSE
    ELSE IF par[1] = ob THEN TRUE
    ELSE LET at == {i \in 1..Len(sc) : sc[i].name = par[1]}
         IN IF at = {} THEN FALSE
            ELSE ParentLoop(sc, sc[CHOOSE i \in at : TRUE].parent, ob, fuel - 1)

\* obj.parent = parent_object
SetParent(sc, i, pname) ==
    [sc EXCEPT ![i].parent =
        IF ParentLoop(sc, <<pname>>, sc[i].name, Len(sc)) THEN NoParent
        ELSE <<pname>>]

\* the loop over the scene's objects for a list of substrings, from object i on
RECURSIVE AssignToGroup(_, _, _, _)
AssignToGroup(sc, i, subgroups, pname) ==
    IF i > Len(sc) THEN sc
    ELSE IF AnyIn(subgroups, Lower(sc[i].name)) /\ sc[i].name # pname
    THEN AssignToGroup(SetParent(sc, i, pname), i + 1, subgroups, pname)
    ELSE AssignToGroup(sc, i + 1, subgroups, pname)

\* the removal at the end of one group's turn
PruneIfEmpty(sc, pname) ==
    IF Children(sc, pname) = {} THEN RemoveObject(sc, pname) ELSE sc

\* group_objects(group_definitions, parent): the scene after the call
RECURSIVE group_objects(_, _, _)
group_objects(group_definitions, parent, sc) ==
    IF group_definitions = <<>> THEN sc
    ELSE LET g == Head(group_definitions)
             created == create_parent_object(g.name, sc)
             pname == created.name
             linked == Append(sc, [created EXCEPT !.parent = parent])
             filled == IF g.isDict
                       THEN group_objects(g.kids, <<pname>>, linked)
                       ELSE AssignToGroup(linked, 1, g.subs, pname)
         IN group_objects(Tail(group_definitions), parent, PruneIfEmpty(filled, pname))

(***************************************************************************)
(* Scene assembly: the steps of process_stls.                              *)
(***************************************************************************)
VARIABLES
    scene,       \* bpy.context.scene.objects, in link order
    matData,     \* bpy.data.materials: the names of the material datablocks
    materials,   \* the dictionary assign_materials returned to process_stls
    pcS,         \* the statement process_stls is at
    stlDir,      \* the files os.walk finds under stl_dir, in walk order
    glbPath,     \* the glb_path argument of the current process_stls call
    groupDefs,   \* the content of the group definitions file
    exports,     \* the files written by export_to_glb with their scene, oldest first
    err,         \* the uncaught exception, <<>> when there is none
    runs         \* the number of process_stls calls so far

sceneVars == <<scene, matData, materials, pcS, stlDir, glbPath, groupDefs, exports, err, runs>>

\* the batch driver (main, process_files and what they call)
VARIABLES
    args,        \* the parsed command line
    fs,          \* the files on disk, in the order they were created
    tasks,       \* main's task list, after the defaults
    pcM,         \* the statement the batch driver is at
    todo,        \* the inputs the current loop of main has not processed yet
    cur,         \* the directories process_files computed for the current input
    taskIx,      \* the index of the next task in the loop over tasks
    convQueue,   \* the entries of os.listdir(segment_dir) not converted yet
    events       \* the external effects so far: tool runs, conversions, exports

batchVars == <<args, fs, tasks, pcM, todo, cur, taskIx, convQueue, events>>

vars == <<sceneVars, batchVars>>

\* an external effect: a run of the segmentation tool ("segment"), one
\* vtk_nii_to_stl call ("convert") or one export_to_glb call ("export");
\* raised is the exception the call ended with, "" when it returned; result is
\* the value a call returned, as Python prints it
Event(op) ==
    [op |-> op, input |-> IF cur = <<>> THEN "" ELSE cur.nii_input, task |-> "",
     command |-> <<>>, rc |-> 0, path |-> "", dir |-> "", labels |-> {},
     written |-> <<>>, raised |-> "", result |-> ""]

NoError == <<>>

\* the startup scene of the Blender session that imports bpy
DefaultScene ==
    << NewObject("Cube", "MESH", NoParent), NewObject("Camera", "CAMERA", NoParent) >>

IsMesh(obj) == obj.kind = "MESH"

\* a clear_scene that deletes cameras, lights and empties but leaves the meshes
clear_scene_leaving_meshes(sc) == SelectSeq(sc, IsMesh)

\* a clear_scene that deletes nothing
clear_scene_deleting_nothing(sc) == sc

\* a clear_scene that deletes everything but the meshes imported from files
clear_scene_keeping_imports(sc) ==
    SelectSeq(sc, LAMBDA obj : obj.kind = "MESH" /\ obj.file # "")

\* clear_scene(): select everything, delete the selection
clear_scene(sc) == <<>>

\* os.path.basename, os.path.dirname
Basename(path) == Slice(path, RFind(path, "/") + 1, Len(path))
Dirname(path) == IF RFind(path, "/") < 0 THEN "" ELSE Slice(path, 0, RFind(path, "/"))

\* the object name the STL importer derives from a file path
Stem(file) == Slice(Basename(file), 0, RFind(Basename(file), "."))

\* load_stl_files(stls_dir): one imported mesh object per *.stl file
RECURSIVE load_stl_files(_, _)
load_stl_files(files, sc) ==
    IF files = <<>> THEN sc
    ELSE IF EndsWith(Head(files), ".stl")
    THEN load_stl_files(Tail(files),
             Append(sc, [NewObject(UniqueName(Stem(Head(files)), Names(sc)),
                                   "MESH", NoParent) EXCEPT !.file = Head(files)]))
    ELSE load_stl_files(Tail(files), sc)

\* rotate_scene(): 180 degrees about Z, then about Y, on every object
rotate_scene(sc) ==
    [i \in 1..Len(sc) |->
        [sc[i] EXCEPT !.rot = <<(@[1] + 180) % 360, (@[2] + 180) % 360>>]]

\* apply_transformation(): the rotation is baked into the mesh data
apply_transformation(sc) ==
    [i \in 1..Len(sc) |->
        [sc[i] EXCEPT !.baked = <<(@[1] + sc[i].rot[1]) % 360,
                                  (@[2] + sc[i].rot[2]) % 360>>,
                      !.rot = <<0, 0>>]]

CallProcessStls ==
    /\ pcS \in {"idle", "done"}
    /\ runs < MaxRuns
    /\ runs' = runs + 1
    /\ pcS' = "clear_scene"
    /\ UNCHANGED <<scene, matData, materials, stlDir, glbPath, groupDefs, exports, err>>
    /\ UNCHANGED batchVars

ClearScene ==
    /\ pcS = "clear_scene"
    /\ scene' = clear_scene(scene)
    /\ pcS' = "load_stl_files"
    /\ UNCHANGED <<matData, materials, stlDir, glbPath, groupDefs, exports, err, runs>>
    /\ UNCHANGED batchVars

LoadStlFiles ==
    /\ pcS = "load_stl_files"
    /\ scene' = load_stl_files(stlDir, scene)
    /\ pcS' = "rotate_scene"
    /\ UNCHANGED <<matData, materials, stlDir, glbPath, groupDefs, exports, err, runs>>
    /\ UNCHANGED batchVars

RotateScene ==
    /\ pcS = "rotate_scene"
    /\ scene' = rotate_scene(scene)
    /\ pcS' = "apply_transformation"
    /\ UNCHANGED <<matData, materials, stlDir, glbPath, groupDefs, exports, err, runs>>
    /\ UNCHANGED batchVars

ApplyTransformation ==
    /\ pcS = "apply_transformation"
    /\ scene' = apply_transformation(scene)
    /\ pcS' = "assign_materials"
    /\ UNCHANGED <<matData, materials, stlDir, glbPath, groupDefs, exports, err, runs>>
    /\ UNCHANGED batchVars

AssignMaterials ==
    /\ pcS = "assign_materials"
    /\ materials' = assign_materials(matData)
    /\ matData' = matData \cup {materials'[b] : b \in DOMAIN materials'}
    /\ pcS' = "assign_materials_to_objects"
    /\ UNCHANGED <<scene, stlDir, glbPath, groupDefs, exports, err, runs>>
    /\ UNCHANGED batchVars

AssignMaterialsToObjects ==
    /\ pcS = "assign_materials_to_objects"
    /\ LET out == assign_materials_to_objects(materials, scene)
       IN /\ scene' = out.scene
          /\ IF out.err = ""
             THEN pcS' = "group_objects" /\ err' = err
             ELSE pcS' = "raised" /\ err' = <<out.err>>
    /\ UNCHANGED <<matData, materials, stlDir, glbPath, groupDefs, exports, runs>>
    /\ UNCHANGED batchVars

GroupObjects ==
    /\ pcS = "group_objects"
    /\ scene' = group_objects(groupDefs, NoParent, scene)
    /\ pcS' = "export_to_glb"
    /\ UNCHANGED <<matData, materials, stlDir, glbPath, groupDefs, exports, err, runs>>
    /\ UNCHANGED batchVars

ExportToGlb ==
    /\ pcS = "export_to_glb"
    /\ exports' = Append(exports, [path |-> glbPath, scene |-> scene])
    /\ events' = Append(events, [Event("export") EXCEPT !.path = glbPath])
    /\ pcS' = "done"
    /\ UNCHANGED <<scene, matData, materials, stlDir, glbPath, groupDefs, err, runs>>
    /\ UNCHANGED <<args, fs, tasks, pcM, todo, cur, taskIx, convQueue>>

(***************************************************************************)
(* The scene-assembly specification: process_stls called MaxRuns times on  *)
(* one unchanged mesh directory.                                           *)
(***************************************************************************)
\* file names a mesh directory may hold
FilePool ==
    {"liver_segment.stl", "femur_left.stl", "heart.stl", "Spleen.stl",
     "artery_vein.stl", "hip_implant.stl", "pleural_effusion.stl",
     "tumor_implant.stl", "notes.txt"}

\* the sequences of at most n distinct elements of S
DistinctSeqs(S, n) ==
    UNION {{q \in [1..k -> S] : \A i, j \in 1..k : i # j => q[i] # q[j]} : k \in 0..n}

\* contents of the group definitions file ({} when the file is missing)
GroupDefsPool ==
    { <<>>,
      << Branch("Organs", << Leaf("Liver", <<"liver">>), Leaf("Spleen", <<"spleen">>) >>),
         Leaf("Bones", <<"femur", "hip">>) >>,
      << Leaf("Abdomen", <<"liver", "spleen">>), Leaf("Organs", <<"liver", "heart">>) >>,
      << Branch("Skeleton", << Leaf("Femur", <<"femur">>) >>), Leaf("Legs", <<"femur">>) >>,
      << Leaf("heart", <<"heart">>),
         Branch("Vessels", << Leaf("Arteries", <<"aorta">>), Leaf("Veins", <<"vena">>) >>) >>,
      << Branch("Body", << Branch("Ribs", << Leaf("Left", <<"rib", "femur">>) >>) >>) >> }

SceneInit ==
    /\ scene = DefaultScene
    /\ matData = {"Material"}
    /\ materials = <<>>
    /\ pcS = "idle"
    /\ stlDir \in DistinctSeqs(FilePool, MaxFiles)
    /\ glbPath = "scene.glb"
    /\ groupDefs \in GroupDefsPool
    /\ exports = <<>>
    /\ err = NoError
    /\ runs = 0
    /\ args = <<>>
    /\ fs = <<>>
    /\ tasks = <<>>
    /\ pcM = "off"
    /\ todo = <<>>
    /\ cur = <<>>
    /\ taskIx = 0
    /\ convQueue = <<>>
    /\ events = <<>>

SceneNext ==
    \/ CallProcessStls
    \/ ClearScene
    \/ LoadStlFiles
    \/ RotateScene
    \/ ApplyTransformation
    \/ AssignMaterials
    \/ AssignMaterialsToObjects
    \/ GroupObjects
    \/ ExportToGlb

SpecScene == SceneInit /\ [][SceneNext]_vars

(***************************************************************************)
(* Properties of material assignment (SpecScene).                          *)
(***************************************************************************)
\* assign_materials_to_objects has run: it returned or it raised
AssignRan == pcS \in {"group_objects", "raised"}

\* the loop got as far as object i: every object before it was given a material
Visited(i) == \A j \in 1..(i - 1) : scene[j].mats # <<>>

\* the buckets whose rule has a substring occurring in the lower-cased name
MatchedBuckets(name) == {MaterialRules[r].bucket : r \in MatchingRules(Lower(name))}

\* the priority order of the buckets
PriorityOrder ==
    <<"bone", "spleen", "kidney", "liver", "stomach", "lung", "nervous", "artery",
      "vein", "cartilage", "gland", "fluid", "infiltrate", "implant", "tumor">>

FirstInPriority(buckets) ==
    PriorityOrder[CHOOSE k \in 1..Len(PriorityOrder) :
                     /\ PriorityOrder[k] \in buckets
                     /\ \A m \in 1..(k - 1) : PriorityOrder[m] \notin buckets]

\* object i carries exactly the material created for `bucket`
HasMaterialOf(i, bucket) ==
    /\ Len(scene[i].mats) = 1
    /\ BaseName(scene[i].mats[1]) = bucket \o "_mat"

\* C1: once assign_materials_to_objects has handled an object whose lower-cased
\* name matches the rules of two or more buckets, the object carries the material
\* of the matched bucket that comes first in the priority order.
C1_FirstMatchingRuleWins ==
    AssignRan =>
        \A i \in 1..Len(scene) :
            (/\ scene[i].kind = "MESH"
             /\ Cardinality(MatchedBuckets(scene[i].name)) >= 2
             /\ Visited(i))
            => HasMaterialOf(i, FirstInPriority(MatchedBuckets(scene[i].name)))

\* C2: after assign_materials and assign_materials_to_objects every mesh object
\* has exactly one material, and the call raised nothing.
C2_EveryMeshOneMaterial ==
    AssignRan =>
        /\ err = NoError
        /\ \A i \in 1..Len(scene) :
              scene[i].kind = "MESH" => Len(scene[i].mats) = 1

\* C3: once assign_materials_to_objects has handled an object whose lower-cased
\* name matches the rule of exactly one bucket, the object carries that bucket's
\* material.
C3_SingleBucketMaterial ==
    AssignRan =>
        \A i \in 1..Len(scene) :
            (/\ scene[i].kind = "MESH"
             /\ Cardinality(MatchedBuckets(scene[i].name)) = 1
             /\ Visited(i))
            => \E b \in MatchedBuckets(scene[i].name) : HasMaterialOf(i, b)

Grouped == pcS \in {"export_to_glb", "done"}

\* C8: after group_objects returns, no group node remains with zero children.
C8_NoChildlessGroupRemains ==
    Grouped =>
        \A i \in 1..Len(scene) :
            scene[i].kind = "EMPTY" => Children(scene, scene[i].name) # {}

\* what an exported scene says about each object: its kind, its parent and the
\* buckets of its materials
SceneSummary(sc) ==
    {[name |-> sc[i].name, kind |-> sc[i].kind, parent |-> sc[i].parent,
      buckets |-> [k \in 1..Len(sc[i].mats) |-> BaseName(sc[i].mats[k])]] :
        i \in 1..Len(sc)}

\* C9: any two process_stls runs on the same unchanged mesh directory export the
\* same objects with the same material buckets and the same parents.
C9_RepeatedRunsAgree ==
    \A a, b \in 1..Len(exports) :
        SceneSummary(exports[a].scene) = SceneSummary(exports[b].scene)

\* C9 witness: a second run has exported a scene with a mesh that carries a
\* material and sits under a group node, after a first run that did the same.
C9_Witness ==
    /\ Len(exports) = 2
    /\ \E i \in 1..Len(exports[2].scene) :
          /\ exports[2].scene[i].kind = "MESH"
          /\ exports[2].scene[i].mats # <<>>
          /\ exports[2].scene[i].parent # NoParent
          /\ exports[2].scene[i].mats # exports[1].scene[i].mats

(***************************************************************************)
(* The batch pipeline: paths, class names, label-map to mesh files.        *)
(***************************************************************************)
\* the largest label the segmentation tool puts in a label-map
MaxLabel == 2
\* the largest exit code of the segmentation tool
MaxExitCode == 2

VALID_TASKS ==
    <<"total", "total_mr", "lung_vessels", "body", "cerebral_bleed", "hip_implant",
      "coronary_arteries", "pleural_pericard_effusion", "head_glands_cavities",
      "head_muscles", "headneck_bones_vessels", "headneck_muscles">>

\* os.path.join(a, b)
Join(a, b) == a \o "/" \o b

\* os.path.splitext(name)[0]
SplitextRoot(name) == IF RFind(name, ".") <= 0 THEN name ELSE Slice(name, 0, RFind(name, "."))

\* s.replace(' ', '_')
RECURSIVE ReplaceSpaces(_)
ReplaceSpaces(s) ==
    IF Len(s) = 0 THEN ""
    ELSE (IF SubSeq(s, 1, 1) = " " THEN "_" ELSE SubSeq(s, 1, 1))
         \o ReplaceSpaces(SubSeq(s, 2, Len(s)))

\* re.sub(r"\.nii(\.gz)?$", "", filename)
StripNii(filename) ==
    IF EndsWith(filename, ".nii.gz") THEN Slice(filename, 0, Len(filename) - 7)
    ELSE IF EndsWith(filename, ".nii") THEN Slice(filename, 0, Len(filename) - 4)
    ELSE filename

\* str(label) for a label >= 0
RECURSIVE Str(_)
Str(n) ==
    IF n < 10 THEN SubSeq(Digits, n + 1, n + 1)
    ELSE Str(n \div 10) \o SubSeq(Digits, (n % 10) + 1, (n % 10) + 1)

\* the content of ts_class_map.json: task -> (label as a string -> class name)
ClassMap ==
    [t \in {"total", "total_mr", "body", "hip_implant", "head_muscles",
            "headneck_muscles"} |->
        CASE t = "total" -> [l \in {"1", "2"} |-> IF l = "1" THEN "liver" ELSE "spleen"]
          [] t = "total_mr" -> [l \in {"1", "2"} |-> IF l = "1" THEN "brain" ELSE "heart"]
          [] t = "body" ->
               [l \in {"1", "2"} |-> IF l = "1" THEN "body_trunc" ELSE "body_extremities"]
          [] t = "hip_implant" -> [l \in {"1"} |-> "hip_implant"]
          [] t = "head_muscles" -> [l \in {"1"} |-> "masseter_right"]
          [] t = "headneck_muscles" -> [l \in {"1"} |-> "sternocleidomastoid_right"]]

\* the task get_class_name finds in the path: the first valid task that occurs
\* in it, <<>> for None
TaskInPath(nii_path) ==
    LET hits == {i \in 1..Len(VALID_TASKS) : Contains(nii_path, VALID_TASKS[i])}
    IN IF hits = {} THEN <<>>
       ELSE <<VALID_TASKS[CHOOSE i \in hits : \A j \in hits : i <= j]>>

\* get_class_name(label, class_map, nii_path)
get_class_name(label, class_map, nii_path) ==
    LET task == TaskInPath(nii_path)
    IN IF /\ task # <<>>
          /\ task[1] \in DOMAIN class_map
          /\ Str(label) \in DOMAIN class_map[task[1]]
       THEN class_map[task[1]][Str(label)]
       ELSE Str(label)

\* files: a file is its path, its kind, and what it holds
SegFile(path, task, labels) ==
    [path |-> path, kind |-> "labelmap", task |-> task, labels |-> labels, label |-> 0]
StlFile(path, label) ==
    [path |-> path, kind |-> "stl", task |-> "", labels |-> {}, label |-> label]
PlainFile(path) ==
    [path |-> path, kind |-> "file", task |-> "", labels |-> {}, label |-> 0]

Paths(files) == {files[i].path : i \in 1..Len(files)}

FileAt(files, path) == files[CHOOSE i \in 1..Len(files) : files[i].path = path]

\* creating or overwriting a file
WriteFile(files, file) ==
    IF file.path \in Paths(files)
    THEN [i \in 1..Len(files) |-> IF files[i].path = file.path THEN file ELSE files[i]]
    ELSE Append(files, file)

\* a mesh is the sequence of the filters whose outputs led to it
\* cleanMesh(mesh, False): the output of vtkCleanPolyData
cleanMesh(mesh) == Append(mesh, "clean")

\* smoothMesh(mesh, 20): the output of vtkWindowedSincPolyDataFilter
smoothMesh(mesh) == Append(mesh, "windowed_sinc")

\* reduceMesh(mesh, 0.5): the output of vtkDecimatePro
reduceMesh(mesh) == Append(mesh, "decimate")

\* vtk_nii_to_stl, lines 124-172: the mesh handed to the STL writer for one
\* label; the values smoothMesh and reduceMesh return are not bound to a name
MeshOfLabel(label) ==
    LET binary_image_data == <<"threshold">>
        padded_image_data == Append(binary_image_data, "pad")
        marching_cubes == Append(padded_image_data, "marching_cubes")
        smoother == Append(marching_cubes, "smooth")
        mesh == cleanMesh(smoother)
        smoothed == smoothMesh(mesh)
        reduced == reduceMesh(mesh)
    IN mesh

\* a loop over labels that also writes a mesh for the background
SkipNothing(label) == FALSE

\* `if label == 0: continue`
SkipLabel(label) == label = 0

\* the loop of vtk_nii_to_stl over the labels not handled yet, in ascending
\* order: the files after it and the writes it made
RECURSIVE WriteLabels(_, _, _, _, _)
WriteLabels(labels, nii_path, stl_task_dir, files, written) ==
    IF labels = {} THEN [fs |-> files, written |-> written]
    ELSE LET label == CHOOSE l \in labels : \A m \in labels : l <= m
             rest == labels \ {label}
         IN IF SkipLabel(label)
            THEN WriteLabels(rest, nii_path, stl_task_dir, files, written)
            ELSE LET class_name == get_class_name(label, ClassMap, nii_path)
                     stl_path == Join(stl_task_dir, class_name \o ".stl")
                 IN WriteLabels(rest, nii_path, stl_task_dir,
                        WriteFile(files, StlFile(stl_path, label)),
                        Append(written, [label |-> label, class_name |-> class_name,
                                         stl_path |-> stl_path,
                                         mesh |-> MeshOfLabel(label)]))

\* vtk_nii_to_stl(nii_path, stl_task_dir): the files afterwards, the writes
\* made, and the message of the ValueError raised ("" when the call returns)
vtk_nii_to_stl(nii_path, stl_task_dir, files) ==
    LET volume == FileAt(files, nii_path)
        unchanged == [fs |-> files, written |-> <<>>]
    IN IF volume.kind = "unreadable"
       THEN unchanged @@ [err |-> "Failed to read the NIfTI segmentation file."]
       ELSE IF volume.kind = "noscalars"
       THEN unchanged @@ [err |-> "No scalar values found in the segmentation data."]
       ELSE WriteLabels(volume.labels, nii_path, stl_task_dir, files, <<>>)
            @@ [err |-> ""]

(***************************************************************************)
(* The batch driver: main, process_files, run_segmentation,                *)
(* convert_all_nii_to_stl.                                                 *)
(***************************************************************************)
StartsWith(s, prefix) == Len(prefix) <= Len(s) /\ SubSeq(s, 1, Len(prefix)) = prefix

\* path lies somewhere under directory dir
Under(path, dir) == StartsWith(path, dir \o "/")

\* os.path.isdir(path)
IsDir(files, path) == \E i \in 1..Len(files) : Under(files[i].path, path)

\* the files os.walk(dir) yields, as paths, in the order of the directory entries
RECURSIVE Walk(_, _)
Walk(files, dir) ==
    IF files = <<>> THEN <<>>
    ELSE (IF Under(Head(files).path, dir) THEN <<Head(files).path>> ELSE <<>>)
         \o Walk(Tail(files), dir)

\* os.listdir(dir): the names of the files directly in dir
RECURSIVE ListDir(_, _)
ListDir(files, dir) ==
    IF files = <<>> THEN <<>>
    ELSE (IF Dirname(Head(files).path) = dir THEN <<Basename(Head(files).path)>> ELSE <<>>)
         \o ListDir(Tail(files), dir)

\* find_dcm_subdirectories(input_dir): the directories holding a .dcm file
RECURSIVE DcmDirs(_, _)
DcmDirs(walked, found) ==
    IF walked = <<>> THEN found
    ELSE LET root == Dirname(Head(walked))
         IN IF EndsWith(Head(walked), ".dcm") /\ \A i \in 1..Len(found) : found[i] # root
            THEN DcmDirs(Tail(walked), Append(found, root))
            ELSE DcmDirs(Tail(walked), found)

find_dcm_subdirectories(input_dir, files) == DcmDirs(Walk(files, input_dir), <<>>)

\* find_nii_files(input_dir): the .nii files, and the .nii.gz files decompressed
\* next to themselves; the files afterwards and the list returned
RECURSIVE FindNii(_, _, _)
FindNii(walked, files, nii_files) ==
    IF walked = <<>> THEN [fs |-> files, nii_files |-> nii_files]
    ELSE LET file == Head(walked)
         IN IF EndsWith(file, ".nii")
            THEN FindNii(Tail(walked), files, Append(nii_files, file))
            ELSE IF EndsWith(file, ".nii.gz")
            THEN LET nii_path == Slice(file, 0, Len(file) - 3)
                 IN FindNii(Tail(walked), WriteFile(files, PlainFile(nii_path)),
                            Append(nii_files, nii_path))
            ELSE FindNii(Tail(walked), files, nii_files)

find_nii_files(input_dir, files) == FindNii(Walk(files, input_dir), files, <<>>)

\* construct_filename_no_extension(path)
construct_filename_no_extension(files, path) ==
    ReplaceSpaces(IF IsDir(files, path) THEN Basename(path)
                  ELSE Basename(Dirname(path)))

\* process_files, lines 443-460: the names and directories of one input
process_files_dirs(files, filename, nii_input, output_dir) ==
    LET filename_no_extension ==
            IF IsDir(files, nii_input)
            THEN construct_filename_no_extension(files, nii_input)
            ELSE StripNii(filename)
        output_subdir == Join(output_dir, filename_no_extension)
    IN [nii_input |-> nii_input,
        filename_no_extension |-> filename_no_extension,
        output_subdir |-> output_subdir,
        segments_dir |-> Join(output_subdir, "segments"),
        stls_dir |-> Join(output_subdir, "stls"),
        glb_dir |-> Join(output_subdir, "glbs")]

\* run_segmentation: the path of the label-map of one task
segmentation_path(input_path, segments_dir, task) ==
    Join(segments_dir, SplitextRoot(Basename(input_path)) \o "-" \o task \o ".nii")

\* run_segmentation: the command line of one task
segmentation_command(input_path, segmentation, speed, task, stats) ==
    (IF speed = "fast"
     THEN <<"TotalSegmentator", "-i", input_path, "-o", segmentation, "-d", "gpu",
            "--fast", "--task", task, "--ml">>
     ELSE <<"TotalSegmentator", "-i", input_path, "-o", segmentation, "-d", "gpu",
            "--task", task, "--ml">>)
    \o (IF stats THEN <<"--stats">> ELSE <<>>)

\* a run_segmentation that never looks at the return code
RaisesNever(return_code) == FALSE

\* `if return_code != 0: raise`
Raises(return_code) == return_code # 0

\* convert_all_nii_to_stl: the directory the meshes of one label-map go to
stl_task_dir_of(stls_dir, file_name) ==
    Join(stls_dir, Slice(file_name, RFind(file_name, "_") + 1, RFind(file_name, ".")))

\* the label sets a label-map may hold
LabelSets == {0..n : n \in 0..MaxLabel} \cup {1..MaxLabel}

\* what the segmentation tool may leave at the path of a label-map: a volume
\* with labels, a file the reader gets no image from, an image without scalars
Volumes ==
    {[kind |-> "labelmap", labels |-> L] : L \in LabelSets}
    \cup {[kind |-> "unreadable", labels |-> {}], [kind |-> "noscalars", labels |-> {}]}

\* parser.parse_args(): -i in -o out, with the given -t, -m, --merge, -s, --stats
\* (given is <<>> when -t is absent)
ParsedArgs(given, modality, merge, speed, stats) ==
    [input_dir |-> "in", output_dir |-> "out", tasks |-> given, speed |-> speed,
     stats |-> stats, modality |-> modality, merge |-> merge]

\* the command lines of the model
CommandLines ==
    { ParsedArgs(<<>>, "CT", FALSE, "normal", FALSE),
      ParsedArgs(<<>>, "MR", FALSE, "normal", FALSE),
      ParsedArgs(<<"total">>, "CT", FALSE, "fast", TRUE),
      ParsedArgs(<<"total">>, "MR", FALSE, "normal", FALSE),
      ParsedArgs(<<"total_mr">>, "CT", FALSE, "normal", FALSE),
      ParsedArgs(<<"total_mr">>, "MR", TRUE, "normal", TRUE),
      ParsedArgs(<<"total", "body">>, "CT", FALSE, "normal", FALSE),
      ParsedArgs(<<"total", "body">>, "CT", TRUE, "normal", FALSE),
      ParsedArgs(<<"hip_implant", "total">>, "CT", FALSE, "fast", FALSE),
      ParsedArgs(<<"head_muscles", "headneck_muscles">>, "CT", FALSE, "normal", TRUE),
      ParsedArgs(<<"head_muscles", "headneck_muscles">>, "CT", TRUE, "normal", FALSE) }

\* input directories: the files under it, in directory order
InputTrees ==
    { <<"in/notes.txt">>,
      <<"in/scanA.nii">>,
      <<"in/scanA.nii", "in/sub/scanB.nii.gz">>,
      <<"in/pat 1/img1.dcm", "in/pat 1/img2.dcm", "in/scanA.nii">>,
      <<"in/pat 1/img1.dcm", "in/pat 2/img1.dcm">> }

\* runs with two inputs of one name, with a compressed copy next to a volume,
\* and with the output directory inside the input directory
SpecialRuns ==
    { <<ParsedArgs(<<>>, "CT", FALSE, "normal", FALSE),
        <<"in/a/scan.nii", "in/b/scan.nii">>>>,
      <<ParsedArgs(<<>>, "CT", FALSE, "normal", FALSE),
        <<"in/scan.nii", "in/scan.nii.gz">>>>,
      <<[ParsedArgs(<<>>, "CT", FALSE, "normal", FALSE) EXCEPT !.output_dir = "in/out"],
        <<"in/pat 1/img1.dcm">>>> }

\* the runs of the model: a command line and the content of its input directory
BatchRuns == (CommandLines \X InputTrees) \cup SpecialRuns

Init ==
    /\ scene = DefaultScene
    /\ matData = {"Material"}
    /\ materials = <<>>
    /\ pcS = "idle"
    /\ stlDir = <<>>
    /\ glbPath = ""
    /\ groupDefs = << Branch("Organs", << Leaf("Liver", <<"liver">>),
                                          Leaf("Spleen", <<"spleen">>) >>),
                      Leaf("Bones", <<"femur", "hip">>) >>
    /\ exports = <<>>
    /\ err = NoError
    /\ runs = 0
    /\ \E run \in BatchRuns :
          /\ args = run[1]
          /\ fs = [i \in 1..Len(run[2]) |-> PlainFile(run[2][i])]
    /\ tasks = <<>>
    /\ pcM = "main"
    /\ todo = <<>>
    /\ cur = <<>>
    /\ taskIx = 0
    /\ convQueue = <<>>
    /\ events = <<>>

\* a check that only looks at the tasks of a CT run
MismatchForCtOnly(modality, given) ==
    IF modality = "CT"
    THEN IF \E i \in 1..Len(given) : EndsWith(given[i], "_mr")
         THEN "MR tasks are not available for CT images."
         ELSE ""
    ELSE ""

\* main, lines 518-533: the message of the ValueError the loops over the given
\* tasks raise, "" when they raise none
Mismatch(modality, given) ==
    IF modality = "CT"
    THEN IF \E i \in 1..Len(given) : EndsWith(given[i], "_mr")
         THEN "MR tasks are not available for CT images."
         ELSE ""
    ELSE IF \E i \in 1..Len(given) : ~EndsWith(given[i], "_mr")
         THEN "CT tasks are not available for MR images."
         ELSE ""

\* main, lines 519-520 and 527-528: the task list when -t is absent
DefaultTasks(modality) == IF modality = "CT" THEN <<"total">> ELSE <<"total_mr">>

\* main, lines 518-533: the defaults and the task/modality check
MainValidate ==
    /\ pcM = "main"
    /\ LET given == args.tasks
           message == Mismatch(args.modality, given)
       IN IF message # ""
          THEN /\ err' = <<"ValueError", message>>
               /\ pcM' = "raised"
               /\ tasks' = given
          ELSE /\ err' = err
               /\ pcM' = "find_dcm"
               /\ tasks' = IF given # <<>> THEN given ELSE DefaultTasks(args.modality)
    /\ UNCHANGED <<args, fs, todo, cur, taskIx, convQueue, events>>
    /\ UNCHANGED <<scene, matData, materials, pcS, stlDir, glbPath, groupDefs, exports, runs>>

\* main, line 535
FindDcmSubdirectories ==
    /\ pcM = "find_dcm"
    /\ todo' = find_dcm_subdirectories(args.input_dir, fs)
    /\ pcM' = "dcm_loop"
    /\ UNCHANGED <<args, fs, tasks, cur, taskIx, convQueue, events>>
    /\ UNCHANGED sceneVars

\* main, line 540, reached when the loop over the DICOM directories is over
FindNiiFiles ==
    /\ pcM = "dcm_loop"
    /\ todo = <<>>
    /\ LET found == find_nii_files(args.input_dir, fs)
       IN /\ fs' = found.fs
          /\ todo' = found.nii_files
    /\ pcM' = "nii_loop"
    /\ UNCHANGED <<args, tasks, cur, taskIx, convQueue, events>>
    /\ UNCHANGED sceneVars

\* main, lines 536-538 and 541-543, and process_files up to its nii_to_stl call
ProcessFiles ==
    /\ pcM \in {"dcm_loop", "nii_loop"}
    /\ todo # <<>>
    /\ cur' = [loop |-> pcM] @@
              process_files_dirs(fs, Basename(Head(todo)), Head(todo), args.output_dir)
    /\ taskIx' = 1
    /\ pcM' = "run_segmentation"
    /\ UNCHANGED <<args, fs, tasks, todo, convQueue, events>>
    /\ UNCHANGED sceneVars

\* run_segmentation: one turn of the loop over the tasks
RunSegmentation ==
    /\ pcM = "run_segmentation"
    /\ taskIx <= Len(tasks)
    /\ \E return_code \in 0..MaxExitCode, volume \in Volumes :
          LET task == tasks[taskIx]
              segmentation == segmentation_path(cur.nii_input, cur.segments_dir, task)
              command == segmentation_command(cur.nii_input, segmentation,
                                              args.speed, task, args.stats)
              done == [Event("segment") EXCEPT !.task = task, !.command = command,
                                               !.rc = return_code, !.path = segmentation]
          IN /\ events' = Append(events, done)
             /\ IF Raises(return_code)
                THEN /\ volume = [kind |-> "labelmap", labels |-> {0}]
                     /\ err' = <<"CalledProcessError", return_code, command>>
                     /\ pcM' = "raised"
                     /\ UNCHANGED <<fs, taskIx>>
                ELSE /\ fs' = WriteFile(fs, [SegFile(segmentation, task, volume.labels)
                                                  EXCEPT !.kind = volume.kind])
                     /\ taskIx' = taskIx + 1
                     /\ UNCHANGED <<err, pcM>>
    /\ UNCHANGED <<args, tasks, todo, cur, convQueue>>
    /\ UNCHANGED <<scene, matData, materials, pcS, stlDir, glbPath, groupDefs, exports, runs>>

\* convert_all_nii_to_stl, line 222: the listing of the segments directory
ListSegments ==
    /\ pcM = "run_segmentation"
    /\ taskIx > Len(tasks)
    /\ convQueue' = ListDir(fs, cur.segments_dir)
    /\ pcM' = "convert"
    /\ UNCHANGED <<args, fs, tasks, todo, cur, taskIx, events>>
    /\ UNCHANGED sceneVars

\* convert_all_nii_to_stl, lines 223-228: one file of the listing
ConvertNiiToStl ==
    /\ pcM = "convert"
    /\ convQueue # <<>>
    /\ LET file_name == Head(convQueue)
           nii_path == Join(cur.segments_dir, file_name)
           stl_task_dir == stl_task_dir_of(cur.stls_dir, file_name)
           out == vtk_nii_to_stl(nii_path, stl_task_dir, fs)
       IN IF EndsWith(file_name, ".nii")
          THEN /\ fs' = out.fs
               /\ events' = Append(events,
                     [Event("convert") EXCEPT !.path = nii_path, !.dir = stl_task_dir,
                          !.task = FileAt(fs, nii_path).task,
                          !.labels = FileAt(fs, nii_path).labels,
                          !.written = out.written,
                          !.raised = IF out.err = "" THEN "" ELSE "ValueError"])
               /\ IF out.err = ""
                  THEN /\ convQueue' = Tail(convQueue)
                       /\ UNCHANGED <<err, pcM>>
                  ELSE /\ err' = <<"ValueError", out.err>>
                       /\ pcM' = "raised"
                       /\ UNCHANGED convQueue
          ELSE /\ convQueue' = Tail(convQueue)
               /\ UNCHANGED <<fs, events, err, pcM>>
    /\ UNCHANGED <<args, tasks, todo, cur, taskIx>>
    /\ UNCHANGED <<scene, matData, materials, pcS, stlDir, glbPath, groupDefs, exports, runs>>

\* process_files, lines 460-462: the conversions are done
StartExports ==
    /\ pcM = "convert"
    /\ convQueue = <<>>
    /\ taskIx' = 1
    /\ pcM' = "glb"
    /\ UNCHANGED <<args, fs, tasks, todo, cur, convQueue, events>>
    /\ UNCHANGED sceneVars

\* a process_files that exports one asset per task whatever --merge says
process_stls_calls_per_task(merge, task_list, dirs) ==
    [n \in 1..Len(task_list) |->
        [stl_dir |-> Join(dirs.stls_dir, task_list[n]),
         glb_path |-> Join(dirs.glb_dir, dirs.filename_no_extension \o "_"
                                         \o task_list[n] \o ".glb")]]

\* process_files, lines 462-470: the process_stls calls it makes, in order, as
\* the directory to load and the asset to export
process_stls_calls(merge, task_list, dirs) ==
    IF merge
    THEN << [stl_dir |-> dirs.stls_dir,
             glb_path |-> Join(dirs.glb_dir,
                               dirs.filename_no_extension \o "_merged.glb")] >>
    ELSE [n \in 1..Len(task_list) |->
            [stl_dir |-> Join(dirs.stls_dir, task_list[n]),
             glb_path |-> Join(dirs.glb_dir, dirs.filename_no_extension \o "_"
                                             \o task_list[n] \o ".glb")]]

\* process_files, lines 462-470: the next process_stls call
ProcessStls ==
    /\ pcM = "glb"
    /\ pcS \in {"idle", "done"}
    /\ LET calls == process_stls_calls(args.merge, tasks, cur)
       IN /\ taskIx <= Len(calls)
          /\ stlDir' = Walk(fs, calls[taskIx].stl_dir)
          /\ glbPath' = calls[taskIx].glb_path
          /\ taskIx' = taskIx + 1
    /\ pcS' = "clear_scene"
    /\ UNCHANGED <<args, fs, tasks, pcM, todo, cur, convQueue, events>>
    /\ UNCHANGED <<scene, matData, materials, groupDefs, exports, err, runs>>

\* process_files returns to the loop of main
NextInput ==
    /\ pcM = "glb"
    /\ pcS \in {"idle", "done"}
    /\ taskIx > Len(process_stls_calls(args.merge, tasks, cur))
    /\ todo' = Tail(todo)
    /\ pcM' = cur.loop
    /\ UNCHANGED <<args, fs, tasks, cur, taskIx, convQueue, events>>
    /\ UNCHANGED sceneVars

\* main returns
MainDone ==
    /\ pcM = "nii_loop"
    /\ todo = <<>>
    /\ pcM' = "done"
    /\ UNCHANGED <<args, fs, tasks, todo, cur, taskIx, convQueue, events>>
    /\ UNCHANGED sceneVars

Next ==
    \/ MainValidate
    \/ FindDcmSubdirectories
    \/ FindNiiFiles
    \/ ProcessFiles
    \/ RunSegmentation
    \/ ListSegments
    \/ ConvertNiiToStl
    \/ StartExports
    \/ ProcessStls
    \/ NextInput
    \/ MainDone
    \/ ClearScene
    \/ LoadStlFiles
    \/ RotateScene
    \/ ApplyTransformation
    \/ AssignMaterials
    \/ AssignMaterialsToObjects
    \/ GroupObjects
    \/ ExportToGlb

Spec == Init /\ [][Next]_vars

(***************************************************************************)
(* Properties of the batch pipeline (Spec).                                *)
(***************************************************************************)
Converts == {i \in 1..Len(events) : events[i].op = "convert"}

WrittenLabels(e) == {e.written[i].label : i \in 1..Len(e.written)}
WrittenPaths(e) == {e.written[i].stl_path : i \in 1..Len(e.written)}

\* the name the class map of task gives to label, the label itself when it
\* gives none
NameInTask(task, label) ==
    IF task \in DOMAIN ClassMap /\ Str(label) \in DOMAIN ClassMap[task]
    THEN ClassMap[task][Str(label)]
    ELSE Str(label)

\* C5: every vtk_nii_to_stl call attempts a write for exactly the distinct
\* values of its volume other than 0, and no mesh file on disk is one of label 0.
C5_BackgroundNeverWritten ==
    /\ \A i \in Converts : WrittenLabels(events[i]) = events[i].labels \ {0}
    /\ \A i \in 1..Len(fs) : fs[i].kind = "stl" => fs[i].label # 0

\* C5 witness: a volume holding the background and two other labels has been
\* converted, and two mesh files were written for it.
C5_Witness ==
    \E i \in Converts :
        /\ 0 \in events[i].labels
        /\ Cardinality(events[i].labels) = 3
        /\ Len(events[i].written) = 2
        /\ WrittenPaths(events[i]) \subseteq Paths(fs)

\* C6: when the class map of the task a label-map was segmented for names the
\* non-zero labels of the label-map with pairwise distinct names, vtk_nii_to_stl
\* writes exactly one file <class name>.stl per non-zero label into the
\* directory it was given.
C6_OneNamedMeshPerLabel ==
    \A i \in Converts :
        LET e == events[i]
            L == e.labels \ {0}
        IN (/\ e.task \in DOMAIN ClassMap
            /\ \A l \in L : Str(l) \in DOMAIN ClassMap[e.task]
            /\ \A l, m \in L : l # m => ClassMap[e.task][Str(l)] # ClassMap[e.task][Str(m)])
           => /\ WrittenPaths(e) = {Join(e.dir, ClassMap[e.task][Str(l)] \o ".stl") : l \in L}
              /\ Cardinality(WrittenPaths(e)) = Cardinality(L)

\* C7: for the label-map that run_segmentation produced for task T, the class
\* name get_class_name returns for a label is the one the class map of T gives
\* it, and the label as a string when T's class map has none.
C7_ClassNameOfOwnTask ==
    \A i \in Converts :
        \A n \in 1..Len(events[i].written) :
            events[i].written[n].class_name
                = NameInTask(events[i].task, events[i].written[n].label)

\* the first effect of a process_files call: a segmentation that follows a
\* conversion or an export, or effects for another input, or nothing
StartsCall(n) ==
    /\ events[n].op = "segment"
    /\ (n = 1 \/ events[n - 1].op # "segment" \/ events[n - 1].input # events[n].input)

\* the position of the first effect of the process_files call that effect n
\* belongs to
CallOf(n) ==
    CHOOSE k \in 1..n : StartsCall(k) /\ \A m \in (k + 1)..n : ~StartsCall(m)

\* C10: a segmentation run that exits with a non-zero code is the last thing the
\* batch does: CalledProcessError with that code and command is raised and not
\* caught, and the process_files call it was made in has made no conversion and
\* no export for its input.
C10_FailedSegmentationStopsBatch ==
    \A i \in 1..Len(events) :
        (events[i].op = "segment" /\ events[i].rc # 0)
        => /\ i = Len(events)
           /\ err = <<"CalledProcessError", events[i].rc, events[i].command>>
           /\ pcM = "raised"
           /\ todo # <<>> /\ Head(todo) = events[i].input
           /\ \A j \in CallOf(i)..Len(events) :
                 events[j].op = "segment" /\ events[j].input = events[i].input

\* C10 witness: the tool failed on the first of two tasks of the second of two
\* inputs, after the first input was segmented, converted and exported.
C10_Witness ==
    /\ pcM = "raised"
    /\ Len(err) = 3 /\ err[1] = "CalledProcessError" /\ err[2] = 2
    /\ Len(tasks) = 2 /\ taskIx = 1
    /\ \E i, j \in 1..Len(events) :
          /\ events[i].op = "export"
          /\ events[j].op = "convert"
          /\ events[i].input # events[Len(events)].input
    /\ events[Len(events)].command[Len(events[Len(events)].command)] = "--ml"

\* C11: a vtk_nii_to_stl call that finds its volume unreadable or without
\* scalar data does not crash the batch: no exception is left uncaught and the
\* batch driver is not stopped by it.
C11_UnreadableVolumeSkipsOneInput ==
    \A i \in Converts :
        events[i].raised # "" => (pcM # "raised" /\ err = NoError)

\* a task named for MR images
IsMrTask(task) == Len(task) >= 3 /\ SubSeq(task, Len(task) - 2, Len(task)) = "_mr"

\* no input was discovered, decompressed or processed: the disk is as main found
\* it and nothing was run, converted or exported
NothingDone ==
    /\ events = <<>>
    /\ exports = <<>>
    /\ todo = <<>> /\ cur = <<>>
    /\ \E run \in BatchRuns : fs = [i \in 1..Len(run[2]) |-> PlainFile(run[2][i])]

DirsOf(input) == process_files_dirs(fs, Basename(input), input, args.output_dir)

\* the path of the asset of one task of an input
TaskGlbPath(input, task) ==
    Join(DirsOf(input).glb_dir,
         DirsOf(input).filename_no_extension \o "_" \o task \o ".glb")

\* the mesh files the mesh objects of a scene were imported from
MeshFiles(sc) == {sc[i].file : i \in {j \in 1..Len(sc) : sc[j].kind = "MESH"}}

\* C13: without --merge, the meshes of task T's label-map of an input are written
\* into the directory stls/T of that input, and the asset exported as
\* <name>_<T>.glb is assembled from exactly the mesh files written for it.
C13_TaskAssetFromTaskMeshes ==
    ~args.merge =>
        \A i \in Converts :
            /\ events[i].dir = Join(DirsOf(events[i].input).stls_dir, events[i].task)
            /\ \A k \in 1..Len(exports) :
                  exports[k].path = TaskGlbPath(events[i].input, events[i].task)
                  => MeshFiles(exports[k].scene) = WrittenPaths(events[i])

\* process_files is about to return for the current input: every process_stls
\* call it makes has returned
Returned ==
    /\ pcM = "glb"
    /\ pcS = "done"
    /\ ~ENABLED ProcessStls

\* the exports of the process_files call that made the latest effect, as
\* positions in the sequence of effects
ExportsOfCall ==
    {i \in 1..Len(events) :
        events[i].op = "export" /\ CallOf(i) = CallOf(Len(events))}

\* the mesh files on disk under a directory
StlFilesUnder(dir) == {q \in Paths(fs) : Under(q, dir) /\ EndsWith(q, ".stl")}

\* C14: when a process_files call returns: with --merge it has made one export,
\* <name>_merged.glb, whose scene holds one mesh object for every mesh file
\* under the input's stls directory; without --merge it has made one export
\* per requested task, <name>_<task>.glb.
C14_OneExportPerInputOrTask ==
    Returned =>
        LET made == ExportsOfCall
            merged == Join(cur.glb_dir, cur.filename_no_extension \o "_merged.glb")
        IN IF args.merge
           THEN /\ Cardinality(made) = 1
                /\ \A i \in made : events[i].path = merged
                /\ exports[Len(exports)].path = merged
                /\ MeshFiles(exports[Len(exports)].scene) = StlFilesUnder(cur.stls_dir)
                /\ Cardinality({j \in 1..Len(exports[Len(exports)].scene) :
                                   exports[Len(exports)].scene[j].kind = "MESH"})
                      = Cardinality(StlFilesUnder(cur.stls_dir))
           ELSE /\ Cardinality(made) = Len(tasks)
                /\ {events[i].path : i \in made}
                      = {TaskGlbPath(cur.nii_input, tasks[n]) : n \in 1..Len(tasks)}

\* C14 witness: a merged run of two tasks has exported one asset for an input,
\* holding mesh files of two directories.
C14_Witness ==
    /\ Returned
    /\ args.merge /\ Len(tasks) = 2
    /\ \E a, b \in MeshFiles(exports[Len(exports)].scene) : Dirname(a) # Dirname(b)

(***************************************************************************)
(* nii_to_stl.py: every .nii.gz volume of a directory to one repaired STL.  *)
(***************************************************************************)
\* image_data.GetScalarRange() of a volume holding the given values
ScalarRange(labels) ==
    << CHOOSE l \in labels : \A m \in labels : l <= m,
       CHOOSE l \in labels : \A m \in labels : m <= l >>

\* fill_holes_in_mesh(stl_path, stl_path): the mesh objects of the scene are
\* deleted and the STL file is imported, repaired and exported over itself
fill_holes_in_mesh(stl_path, sc) ==
    LET kept == SelectSeq(sc, LAMBDA obj : obj.kind # "MESH")
    IN Append(kept, [NewObject(UniqueName(Stem(stl_path), Names(kept)), "MESH", NoParent)
                        EXCEPT !.file = stl_path])

\* nii_to_stl(nii_path, stl_path) of nii_to_stl.py: the files and the scene
\* afterwards, the STL written, and the value returned (the function ends
\* without a return statement after the repair: None)
nii_to_stl(nii_path, stl_path, files, sc) ==
    LET volume == FileAt(files, nii_path)
        nothing == [fs |-> files, scene |-> sc, written |-> <<>>]
    IN IF volume.kind = "unreadable"
       THEN nothing @@ [result |-> "False"]
       ELSE IF ScalarRange(volume.labels) = <<0, 0>>
       THEN nothing @@ [result |-> "False"]
       ELSE [fs |-> WriteFile(files, [StlFile(stl_path, 0) EXCEPT
                                         !.labels = volume.labels \ {0},
                                         !.task = "repaired"]),
             scene |-> fill_holes_in_mesh(stl_path, sc),
             written |-> <<[label |-> 0, class_name |-> "", stl_path |-> stl_path]>>,
             result |-> "None"]

\* the volumes an input directory of nii_to_stl.py may hold
NiiVolumes ==
    {[kind |-> "labelmap", labels |-> L] : L \in LabelSets}
    \cup {[kind |-> "unreadable", labels |-> {}]}

\* the file names of the input directory
NiiNames == {"liver.nii.gz", "scan.1.nii.gz", "lung.nii", "notes.txt"}

\* the input directories: at most MaxFiles files, in directory order
NiiInputDirs ==
    UNION {{[i \in 1..Len(names) |->
                [SegFile(Join("in", names[i]), "", content[i].labels)
                    EXCEPT !.kind = content[i].kind]] :
             content \in [1..Len(names) -> NiiVolumes]} :
           names \in DistinctSeqs(NiiNames, MaxFiles)}

NiiInit ==
    /\ scene = DefaultScene
    /\ matData = {"Material"}
    /\ materials = <<>>
    /\ pcS = "idle"
    /\ stlDir = <<>>
    /\ glbPath = ""
    /\ groupDefs = <<>>
    /\ exports = <<>>
    /\ err = NoError
    /\ runs = 0
    /\ args = [input_directory |-> "in", output_directory |-> "out"]
    /\ fs \in NiiInputDirs
    /\ tasks = <<>>
    /\ pcM = "convert_all_nii_to_stl"
    /\ todo = <<>>
    /\ cur = <<>>
    /\ taskIx = 0
    /\ convQueue = <<>>
    /\ events = <<>>

\* convert_all_nii_to_stl, lines 153-160: the checks and the directory listing
NiiListInput ==
    /\ pcM = "convert_all_nii_to_stl"
    /\ IF ~IsDir(fs, args.input_directory)
       THEN /\ pcM' = "returned"
            /\ UNCHANGED convQueue
       ELSE /\ pcM' = "for file_name"
            /\ convQueue' = ListDir(fs, args.input_directory)
    /\ UNCHANGED <<args, fs, tasks, todo, cur, taskIx, events>>
    /\ UNCHANGED sceneVars

\* convert_all_nii_to_stl, lines 160-167: one file of the listing
NiiConvertOne ==
    /\ pcM = "for file_name"
    /\ convQueue # <<>>
    /\ LET file_name == Head(convQueue)
           nii_path == Join(args.input_directory, file_name)
           stl_file_name == SplitextRoot(SplitextRoot(file_name)) \o ".stl"
           stl_path == Join(args.output_directory, stl_file_name)
           out == nii_to_stl(nii_path, stl_path, fs, scene)
       IN IF EndsWith(file_name, ".nii.gz")
          THEN /\ fs' = out.fs
               /\ scene' = out.scene
               /\ events' = Append(events,
                     [Event("nii_to_stl") EXCEPT !.input = nii_path, !.path = stl_path,
                          !.labels = FileAt(fs, nii_path).labels,
                          !.written = out.written, !.result = out.result])
          ELSE UNCHANGED <<fs, scene, events>>
    /\ convQueue' = Tail(convQueue)
    /\ UNCHANGED <<args, tasks, pcM, todo, cur, taskIx>>
    /\ UNCHANGED <<matData, materials, pcS, stlDir, glbPath, groupDefs, exports, err, runs>>

\* convert_all_nii_to_stl returns
NiiDone ==
    /\ pcM = "for file_name"
    /\ convQueue = <<>>
    /\ pcM' = "returned"
    /\ UNCHANGED <<args, fs, tasks, todo, cur, taskIx, convQueue, events>>
    /\ UNCHANGED sceneVars

NiiNext ==
    \/ NiiListInput
    \/ NiiConvertOne
    \/ NiiDone

SpecNiiToStl == NiiInit /\ [][NiiNext]_vars

\* the nii_to_stl calls so far
NiiCalls == {i \in 1..Len(events) : events[i].op = "nii_to_stl"}

\* the STL of a call is on disk, written and repaired
StlDone(e) ==
    /\ e.path \in Paths(fs)
    /\ FileAt(fs, e.path).kind = "stl"
    /\ FileAt(fs, e.path).task = "repaired"

\* C15: every nii_to_stl call of nii_to_stl.py returns True when it wrote and
\* repaired its STL and False otherwise; for an unreadable volume or a scalar
\* range of (0, 0) it returns False and writes nothing; and every .nii.gz file
\* of the directory is handed to nii_to_stl, whatever the earlier calls returned.
C15_NiiToStlReturnsSuccess ==
    /\ \A i \in NiiCalls :
          LET e == events[i]
              volume == FileAt(fs, e.input)
          IN /\ e.result = (IF e.written # <<>> /\ StlDone(e) THEN "True" ELSE "False")
             /\ (volume.kind = "unreadable" \/ volume.labels = {0})
                   => (e.result = "False" /\ e.written = <<>>)
    /\ pcM = "returned" =>
          {events[i].input : i \in NiiCalls}
             = {q \in Paths(fs) : Dirname(q) = "in" /\ EndsWith(q, ".nii.gz")}

(***************************************************************************)
(* GLBtoFBXDAE.py: every model file of a directory to the other formats.    *)
(***************************************************************************)
\* output_formats
output_formats == <<"glb", "fbx", "dae">>

\* os.path.splitext(path)[1]
SplitextExt(path) ==
    LET name == Basename(path)
        dot == RFind(name, ".")
    IN IF dot <= 0 THEN "" ELSE Slice(name, dot, Len(name))

\* a clear_scene that leaves the scene as it is
read_factory_settings_kept(sc) == sc

\* clear_scene() of GLBtoFBXDAE.py: read_factory_settings(use_empty=True)
read_factory_settings(sc) == <<>>

\* import_file(filepath): the content of the file joins the scene when its
\* extension is one of the three
import_file(filepath, sc) ==
    LET ext == Lower(SplitextExt(filepath))
    IN IF ext \in {".glb", ".fbx", ".dae"}
       THEN Append(sc, [NewObject(UniqueName(Stem(filepath), Names(sc)), "MESH", NoParent)
                           EXCEPT !.file = filepath])
       ELSE sc

\* `file.lower().endswith(('.glb', '.fbx', '.dae'))`
IsModelFile(file) ==
    \E n \in 1..Len(output_formats) : EndsWith(Lower(file), "." \o output_formats[n])

\* the file names of the input directory
ModelNames == {"in/a.glb", "in/B.FBX", "in/c.dae", "in/sub/a.fbx", "in/.glb", "in/readme.txt"}

GfdInit ==
    /\ scene = DefaultScene
    /\ matData = {"Material"}
    /\ materials = <<>>
    /\ pcS = "idle"
    /\ stlDir = <<>>
    /\ glbPath = ""
    /\ groupDefs = <<>>
    /\ exports = <<>>
    /\ err = NoError
    /\ runs = 0
    /\ args = [input_dir |-> "in", output_dir |-> "out"]
    /\ \E names \in DistinctSeqs(ModelNames, MaxFiles) :
          fs = [i \in 1..Len(names) |-> PlainFile(names[i])]
    /\ tasks = <<>>
    /\ pcM = "os.walk"
    /\ todo = <<>>
    /\ cur = <<>>
    /\ taskIx = 0
    /\ convQueue = <<>>
    /\ events = <<>>

\* main, line 78: the walk of the input directory
GfdWalk ==
    /\ pcM = "os.walk"
    /\ todo' = Walk(fs, args.input_dir)
    /\ pcM' = "for file"
    /\ UNCHANGED <<args, fs, tasks, cur, taskIx, convQueue, events>>
    /\ UNCHANGED sceneVars

\* main, lines 79-83: the next file of the walk
GfdNextFile ==
    /\ pcM = "for file"
    /\ todo # <<>>
    /\ IF IsModelFile(Basename(Head(todo)))
       THEN /\ cur' = [nii_input |-> Head(todo)]
            /\ convQueue' = output_formats
            /\ pcM' = "for output_format"
            /\ todo' = Tail(todo)
       ELSE /\ todo' = Tail(todo)
            /\ UNCHANGED <<cur, convQueue, pcM>>
    /\ UNCHANGED <<args, fs, tasks, taskIx, events>>
    /\ UNCHANGED sceneVars

\* main, line 84: the format is the file's own
GfdSkipFormat ==
    /\ pcM = "for output_format"
    /\ convQueue # <<>>
    /\ EndsWith(Lower(cur.nii_input), "." \o Head(convQueue))
    /\ convQueue' = Tail(convQueue)
    /\ UNCHANGED <<args, fs, tasks, pcM, todo, cur, taskIx, events>>
    /\ UNCHANGED sceneVars

\* main, lines 84-85: clear_scene()
GfdClearScene ==
    /\ pcM = "for output_format"
    /\ convQueue # <<>>
    /\ ~EndsWith(Lower(cur.nii_input), "." \o Head(convQueue))
    /\ scene' = read_factory_settings(scene)
    /\ matData' = {}
    /\ pcM' = "import_file"
    /\ UNCHANGED <<args, fs, tasks, todo, cur, taskIx, convQueue, events>>
    /\ UNCHANGED <<materials, pcS, stlDir, glbPath, groupDefs, exports, err, runs>>

\* main, line 86: import_file(input_file)
GfdImportFile ==
    /\ pcM = "import_file"
    /\ scene' = import_file(cur.nii_input, scene)
    /\ pcM' = "export_file"
    /\ UNCHANGED <<args, fs, tasks, todo, cur, taskIx, convQueue, events>>
    /\ UNCHANGED <<matData, materials, pcS, stlDir, glbPath, groupDefs, exports, err, runs>>

\* main, lines 87-89: export_file(output_file, output_format)
GfdExportFile ==
    /\ pcM = "export_file"
    /\ LET output_format == Head(convQueue)
           output_file == Join(args.output_dir,
                               SplitextRoot(Basename(cur.nii_input)) \o "." \o output_format)
       IN /\ fs' = WriteFile(fs, [PlainFile(output_file) EXCEPT !.kind = output_format])
          /\ exports' = Append(exports, [path |-> output_file, scene |-> scene])
          /\ events' = Append(events,
                [Event("export") EXCEPT !.path = output_file,
                     !.command = <<"export_file", output_file, output_format>>])
    /\ convQueue' = Tail(convQueue)
    /\ pcM' = "for output_format"
    /\ UNCHANGED <<args, tasks, todo, cur, taskIx>>
    /\ UNCHANGED <<scene, matData, materials, pcS, stlDir, glbPath, groupDefs, err, runs>>

\* main, line 90: the formats of one file are done
GfdFileDone ==
    /\ pcM = "for output_format"
    /\ convQueue = <<>>
    /\ pcM' = "for file"
    /\ UNCHANGED <<args, fs, tasks, todo, cur, taskIx, convQueue, events>>
    /\ UNCHANGED sceneVars

\* main returns
GfdDone ==
    /\ pcM = "for file"
    /\ todo = <<>>
    /\ pcM' = "returned"
    /\ UNCHANGED <<args, fs, tasks, todo, cur, taskIx, convQueue, events>>
    /\ UNCHANGED sceneVars

GfdNext ==
    \/ GfdWalk
    \/ GfdNextFile
    \/ GfdSkipFormat
    \/ GfdClearScene
    \/ GfdImportFile
    \/ GfdExportFile
    \/ GfdFileDone
    \/ GfdDone

SpecGlbToFbxDae == GfdInit /\ [][GfdNext]_vars

\* the format a file is in: its extension, lower-cased, without the dot
FormatOf(path) ==
    LET ext == Lower(SplitextExt(path)) IN SubSeq(ext, 2, Len(ext))

\* the files of the input directory whose extension is glb, fbx or dae
ModelFiles ==
    {fs[i].path : i \in {j \in 1..Len(fs) :
        /\ Under(fs[j].path, "in")
        /\ FormatOf(fs[j].path) \in {"glb", "fbx", "dae"}}}

\* the formats a file was exported to so far
ExportedFormats(file) ==
    {events[i].command[3] : i \in {j \in 1..Len(events) : events[j].input = file}}

\* C16: no file is exported to its own format; every export of a file with
\* extension glb, fbx or dae is of a scene that holds that file's content and
\* nothing else; and when main returns each such file was exported exactly once
\* to each of the two other formats.
C16_EachFileToTheOtherTwoFormats ==
    /\ \A i \in 1..Len(events) :
          /\ events[i].command[3] # FormatOf(events[i].input)
          /\ events[i].input \in ModelFiles =>
                /\ Len(exports[i].scene) = 1
                /\ exports[i].scene[1].file = events[i].input
    /\ pcM = "returned" =>
          \A file \in ModelFiles :
             /\ ExportedFormats(file) = {"glb", "fbx", "dae"} \ {FormatOf(file)}
             /\ Cardinality({j \in 1..Len(events) : events[j].input = file}) = 2

\* C16 witness: main has returned after exporting an upper-case FBX file to glb
\* and dae and a second file to its two other formats.
C16_Witness ==
    /\ pcM = "returned"
    /\ ExportedFormats("in/B.FBX") = {"glb", "dae"}
    /\ Len(events) = 4
    /\ exports[4].scene # exports[1].scene

(***************************************************************************)
(* Properties of the meshes and directories of the batch pipeline (Spec).   *)
(***************************************************************************)
\* the filter chain, in order
FilterChain == <<"threshold", "pad", "marching_cubes", "smooth", "clean", "decimate">>

\* C17: every mesh vtk_nii_to_stl writes is the output of the decimation stage,
\* whose input is the output of threshold, pad, marching cubes, smoothing and
\* cleaning, applied in that order.
C17_WrittenMeshIsDecimated ==
    \A i \in Converts :
        \A n \in 1..Len(events[i].written) :
            LET mesh == events[i].written[n].mesh
            IN /\ mesh[Len(mesh)] = "decimate"
               /\ SubSeq(mesh, 1, 5) = SubSeq(FilterChain, 1, 5)

(***************************************************************************)
(* Properties of the order of the scene-assembly steps (SpecScene).         *)
(***************************************************************************)
\* the steps in their order, each named by the statement process_stls is at
\* before the step: clear, import, rotate, bake, create materials, assign
\* materials, build groups, export
StepOrder ==
    <<"clear_scene", "load_stl_files", "rotate_scene", "apply_transformation",
      "assign_materials", "assign_materials_to_objects", "group_objects",
      "export_to_glb", "done">>

\* a step of process_stls: from one place of the order to the next, into the
\* first from outside a call, or out of the call by an exception
InOrder(from, to) ==
    \/ \E n \in 1..(Len(StepOrder) - 1) : from = StepOrder[n] /\ to = StepOrder[n + 1]
    \/ from \in {"idle", "done"} /\ to = "clear_scene"
    \/ from = "assign_materials_to_objects" /\ to = "raised"

\* every object is a mesh object imported from a mesh file
OnlyImportedMeshes(sc) ==
    \A i \in 1..Len(sc) : sc[i].kind = "MESH" /\ sc[i].file # ""

\* every mesh of the scene has its material and its rotation baked in
Classified(sc) ==
    \A i \in 1..Len(sc) :
        sc[i].kind = "MESH" => (Len(sc[i].mats) = 1 /\ sc[i].baked = <<180, 180>>)

\* C18: the steps of every process_stls call are taken in the fixed order;
\* when material assignment starts the scene holds imported mesh objects only,
\* no group node; and what is exported is the scene as the group step left it,
\* with every mesh classified.
C18_StepsInFixedOrder ==
    /\ [][pcS' # pcS => InOrder(pcS, pcS')]_vars
    /\ [](pcS = "assign_materials_to_objects" => OnlyImportedMeshes(scene))
    /\ [][pcS = "group_objects" /\ pcS' # pcS =>
             scene' = group_objects(groupDefs, NoParent, scene)]_vars
    /\ [][pcS = "export_to_glb" /\ pcS' # pcS =>
             /\ exports' = Append(exports, [path |-> glbPath, scene |-> scene])
             /\ Classified(scene)]_vars

\* C18 witness: the second call is at its material assignment with two imported
\* meshes in the scene, after a first call that exported a scene with a group
\* node.
C18_Witness ==
    /\ pcS = "assign_materials_to_objects"
    /\ runs = 2 /\ Len(exports) = 1
    /\ \E i \in 1..Len(exports[1].scene) : exports[1].scene[i].kind = "EMPTY"
    /\ Len(scene) = 2

(***************************************************************************)
(* Properties of the per-task mesh directories (Spec).                      *)
(***************************************************************************)
\* C19: for one input, the label-maps of two different tasks are converted into
\* two different directories.
C19_TasksHaveOwnDirectories ==
    \A i, j \in Converts :
        (/\ events[i].input = events[j].input
         /\ events[i].task # events[j].task)
        => events[i].dir # events[j].dir

(***************************************************************************)
(* Properties of the group hierarchy (SpecScene).                           *)
(***************************************************************************)
\* the definition tree as pairs <<group, enclosing group>>, the enclosing group
\* of a top-level group being NoParent
RECURSIVE DefinedParents(_, _)
DefinedParents(group_definitions, parent) ==
    UNION {{<<group_definitions[n].name, parent>>}
           \cup (IF group_definitions[n].isDict
                 THEN DefinedParents(group_definitions[n].kids,
                                     <<group_definitions[n].name>>)
                 ELSE {}) : n \in 1..Len(group_definitions)}

\* the objects reached from an object by following parent links, at most
\* `fuel` of them
RECURSIVE Ancestors(_, _, _)
Ancestors(sc, par, fuel) ==
    IF par = NoParent \/ fuel = 0 THEN {}
    ELSE {par[1]} \cup UNION {Ancestors(sc, sc[i].parent, fuel - 1) :
                                i \in {j \in 1..Len(sc) : sc[j].name = par[1]}}

\* C20: after group_objects returns, every group node has as parent the node of
\* the group that encloses it in the definition tree (no parent for a top-level
\* group), and no object is among its own ancestors.
C20_GroupParentsMirrorDefinitions ==
    Grouped =>
        /\ \A i \in 1..Len(scene) :
              scene[i].kind = "EMPTY" =>
                 \E pair \in DefinedParents(groupDefs, NoParent) :
                    /\ pair[1] = BaseName(scene[i].name)
                    /\ IF pair[2] = NoParent THEN scene[i].parent = NoParent
                       ELSE /\ scene[i].parent # NoParent
                            /\ BaseName(scene[i].parent[1]) = pair[2][1]
        /\ \A i \in 1..Len(scene) :
              scene[i].name \notin Ancestors(scene, scene[i].parent, Len(scene))

(***************************************************************************)
(* Properties of the scene at export, across the calls of a batch (Spec).   *)
(***************************************************************************)
\* the mesh files among the files handed to load_stl_files
StlsOf(files) == {files[n] : n \in {m \in 1..Len(files) : EndsWith(files[m], ".stl")}}

\* the positions of the objects of one kind
OfKind(sc, kind) == {i \in 1..Len(sc) : sc[i].kind = kind}

\* C21: at the moment of an export the scene holds one mesh object for each
\* mesh file of the directory passed to this process_stls call, and group nodes
\* of the group definitions, one per group at most, and nothing else: nothing
\* of an earlier call is left.
C21_ExportHoldsOnlyThisCall ==
    pcS = "export_to_glb" =>
        /\ \A i \in OfKind(scene, "MESH") : scene[i].file \in StlsOf(stlDir)
        /\ Cardinality(OfKind(scene, "MESH")) = Cardinality(StlsOf(stlDir))
        /\ \A i \in 1..Len(scene) : scene[i].kind \in {"MESH", "EMPTY"}
        /\ \A i \in OfKind(scene, "EMPTY") :
              /\ \E pair \in DefinedParents(groupDefs, NoParent) :
                    pair[1] = BaseName(scene[i].name)
              /\ \A j \in OfKind(scene, "EMPTY") :
                    BaseName(scene[j].name) = BaseName(scene[i].name) => j = i

\* C21 witness: the merged scene of a second input is about to be exported,
\* with meshes and a group node, after the first input's merged scene, which
\* also held meshes and a group node, was exported.
C21_Witness ==
    /\ pcS = "export_to_glb"
    /\ Len(exports) = 1
    /\ OfKind(exports[1].scene, "MESH") # {} /\ OfKind(exports[1].scene, "EMPTY") # {}
    /\ OfKind(scene, "MESH") # {} /\ OfKind(scene, "EMPTY") # {}
    /\ MeshFiles(scene) \cap MeshFiles(exports[1].scene) = {}

(***************************************************************************)
(* Properties of the inputs of a batch run (Spec).                          *)
(***************************************************************************)
\* the inputs process_files has started on
Processed == {events[i].input : i \in 1..Len(events)}

\* C22: two different inputs of one batch run have different output
\* subdirectories.
C22_InputsHaveOwnOutputSubdirs ==
    \A a, b \in Processed :
        a # b => DirsOf(a).output_subdir # DirsOf(b).output_subdir

\* the runs of the segmentation tool so far
Segments == {i \in 1..Len(events) : events[i].op = "segment"}

\* a file the segmentation tool wrote in this run
WrittenByTool(path) ==
    \E i \in Segments : events[i].rc = 0 /\ events[i].path = path

\* C23: no volume fed to the segmentation tool is a label-map the tool wrote
\* during the run, and no input is fed to the tool twice for one task.
C23_InputsAreInitialVolumesOnce ==
    /\ \A i \in Segments : ~WrittenByTool(events[i].input)
    /\ \A i, j \in Segments :
          (events[i].input = events[j].input /\ events[i].task = events[j].task)
          => i = j

====
